---- MODULE Spec2Model ----
(***************************************************************************)
(* Model of chankh/eksutil: building an authenticated Kubernetes client    *)
(* for an EKS cluster from ambient AWS credentials.                        *)
(*                                                                         *)
(* The repository holds the construction flow twice:                       *)
(*   variant "cmd"  src/main.go            (stand-alone lambda, package     *)
(*                                          main, flow inlined in handler) *)
(*   variant "pkg"  src/unnamed/part_001   (package auth, NewAuthClient)    *)
(*                  src/unnamed/part_000   (lambda that calls it)           *)
(* Both are modelled; the variable variant says which program runs.        *)
(*                                                                         *)
(* Go strings that the code splits or concatenates (ARNs, cluster names,   *)
(* base64 text) are sequences of one-character strings.  Go pointers are   *)
(* sequences of length 0 (nil) or 1.                                       *)
(***************************************************************************)
EXTENDS Integers, Sequences, FiniteSets, TLC

VARIABLES
    variant,      \* which program: "cmd" (src/main.go) or "pkg" (part_000 + part_001)
    env,          \* value of the ENV environment variable ("" = unset)
    debug,        \* logrus level is DebugLevel
    pc,           \* position of the invocation
    cfg,          \* the ClusterConfig
    result,       \* (result, err) of svc.DescribeCluster, <<>> before the call
    loadErr,      \* what loadConfig returned: "pending", "void", "nil", or an error
    client,       \* *ClientConfig returned by NewClientConfig
    configs,      \* heap of clientcmdapi.Config objects, address = index
    authInfos,    \* heap of clientcmdapi.AuthInfo objects, address = index
    clientConfig, \* *ClientConfig returned by WithEmbeddedToken (clientConfigCopy)
    tok,          \* token returned by the last successful gen.GetWithSTS
    clientset,    \* *clientset.Clientset handed to the caller
    err,          \* error handed to the caller
    log,          \* records written by logrus
    calls,        \* number of remote operations issued by the invocation
    recalls,      \* number of later calls of WithEmbeddedToken on the same ClientConfig
    identity      \* (output, err) of stsAPI.GetCallerIdentity, <<>> before the call

vars == <<variant, env, debug, pc, cfg, result, loadErr, client, configs,
          authInfos, clientConfig, tok, clientset, err, log, calls, recalls, identity>>

----------------------------------------------------------------------------
(* Bounds *)

MaxArnLen == 3
MaxNameLen == 1
MaxMints == 3

----------------------------------------------------------------------------
(* Pointers *)

Nil == <<>>
Ptr(v) == <<v>>
Deref(p) == p[1]
IsNil(p) == p = <<>>

RECURSIVE SeqsUpTo(_, _)
SeqsUpTo(S, n) ==
    IF n = 0 THEN {<<>>}
    ELSE LET shorter == SeqsUpTo(S, n - 1)
         IN  shorter \cup {Append(s, c) : s \in shorter, c \in S}

----------------------------------------------------------------------------
(* Inputs *)

ArnChars == {"a", "/"}
Arns == SeqsUpTo(ArnChars, MaxArnLen)

NameChars == {"k"}
ClusterNames == SeqsUpTo(NameChars, MaxNameLen)

EnvValues == {"", "PRODUCTION", "DEBUG"}

TokenValues == {"k8s-aws-v1.ABCD", "k8s-aws-v1.WXYZ"}

\* text of the certificateAuthority.data field a response may carry
CATexts == { <<>>,
             <<"Q", "Q", "=", "=">>,
             <<"Q", "U", "E", "=">>,
             <<"Q", "U", "E", "A">>,
             <<"Q", "Q", "=">>,
             <<"Q", "!", "=", "=">>,
             <<"=", "Q", "Q", "=">> }

EndpointTexts == { <<>>, <<"h">> }

----------------------------------------------------------------------------
(* strings.Split and getUsername *)

RECURSIVE Split(_, _)
Split(s, sep) ==
    IF \E i \in 1..Len(s) : s[i] = sep
    THEN LET i == CHOOSE k \in 1..Len(s) :
                      s[k] = sep /\ \A j \in 1..(k - 1) : s[j] # sep
         IN  <<SubSeq(s, 1, i - 1)>> \o Split(SubSeq(s, i + 1, Len(s)), sep)
    ELSE <<s>>

RootAccount ==
    <<"i", "a", "m", "-", "r", "o", "o", "t", "-",
      "a", "c", "c", "o", "u", "n", "t">>

\* takes the segment after the first "/" instead of the last one
getUsernameFirst(iamRoleARN) ==
    LET usernameParts == Split(iamRoleARN, "/")
    IN  IF Len(usernameParts) > 1
        THEN usernameParts[2]
        ELSE RootAccount

getUsername(iamRoleARN) ==
    LET usernameParts == Split(iamRoleARN, "/")
    IN  IF Len(usernameParts) > 1
        THEN usernameParts[Len(usernameParts)]
        ELSE RootAccount

\* fmt.Sprintf("%s@%s", user, cluster)
Sprintf(user, cluster) == user \o <<"@">> \o cluster

----------------------------------------------------------------------------
(* base64.StdEncoding.DecodeString *)

B64Alphabet == {"A", "E", "Q", "U"}
B64Pad == "="

B64Val(c) ==
    CASE c = "A" -> 0
      [] c = "E" -> 4
      [] c = "Q" -> 16
      [] c = "U" -> 20

\* bytes of one quantum of four characters; last says no input follows it
B64Quantum(q, last) ==
    LET v(i) == IF q[i] \in B64Alphabet THEN B64Val(q[i]) ELSE 0
        val == v(1) * 262144 + v(2) * 4096 + v(3) * 64 + v(4)
        b1 == (val \div 65536) % 256
        b2 == (val \div 256) % 256
        b3 == val % 256
    IN  IF q[1] \notin B64Alphabet \/ q[2] \notin B64Alphabet
        THEN [ok |-> FALSE, data |-> <<>>]
        ELSE IF q[3] \in B64Alphabet /\ q[4] \in B64Alphabet
        THEN [ok |-> TRUE, data |-> <<b1, b2, b3>>]
        ELSE IF q[3] \in B64Alphabet /\ q[4] = B64Pad /\ last
        THEN [ok |-> TRUE, data |-> <<b1, b2>>]
        ELSE IF q[3] = B64Pad /\ q[4] = B64Pad /\ last
        THEN [ok |-> TRUE, data |-> <<b1>>]
        ELSE [ok |-> FALSE, data |-> <<>>]

RECURSIVE DecodeString(_)
DecodeString(s) ==
    IF Len(s) = 0 THEN [ok |-> TRUE, data |-> <<>>]
    ELSE IF Len(s) < 4 THEN [ok |-> FALSE, data |-> <<>>]
    ELSE LET q == B64Quantum(SubSeq(s, 1, 4), Len(s) = 4)
             rest == DecodeString(SubSeq(s, 5, Len(s)))
         IN  IF q.ok /\ rest.ok
             THEN [ok |-> TRUE, data |-> q.data \o rest.data]
             ELSE [ok |-> FALSE, data |-> <<>>]

----------------------------------------------------------------------------
(* logrus *)

NoToken == ""

\* entry.Log: a record below the configured level is dropped
Log(l, dbg, level, msg, token) ==
    IF level = "debug" /\ ~dbg
    THEN l
    ELSE Append(l, [level |-> level, msg |-> msg, token |-> token])

----------------------------------------------------------------------------
(* eks.DescribeCluster: what the service may answer *)

ErrorResults ==
    { [err |-> e, Cluster |-> Nil] : e \in {"awserr", "error"} }

ClusterValues ==
    { [Endpoint |-> ep, CertificateAuthority |-> ca] :
        ep \in {Nil} \cup {Ptr(t) : t \in EndpointTexts},
        ca \in {Nil, Ptr([Data |-> Nil])}
               \cup {Ptr([Data |-> Ptr(t)]) : t \in CATexts} }

OkResults ==
    { [err |-> "nil", Cluster |-> c] : c \in {Nil} \cup {Ptr(v) : v \in ClusterValues} }

DescribeClusterResults == ErrorResults \cup OkResults

ResultCAData(r) == Deref(Deref(Deref(r.Cluster).CertificateAuthority).Data)
ResultEndpoint(r) == Deref(Deref(r.Cluster).Endpoint)

----------------------------------------------------------------------------
(* State after construction: the process has started, main has not run *)

Init ==
    /\ variant \in {"cmd", "pkg"}
    /\ env \in EnvValues
    /\ debug = FALSE
    /\ pc = "main"
    /\ \E name \in ClusterNames :
         cfg = [ClusterName |-> name, MasterEndpoint |-> <<>>,
                CertificateAuthorityData |-> <<>>]
    /\ result = Nil
    /\ loadErr = "pending"
    /\ client = Nil
    /\ configs = <<>>
    /\ authInfos = <<>>
    /\ clientConfig = Nil
    /\ tok = NoToken
    /\ clientset = Nil
    /\ err = "nil"
    /\ log = <<>>
    /\ calls = [describe |-> 0, identity |-> 0, presign |-> 0]
    /\ recalls = 0
    /\ identity = Nil

----------------------------------------------------------------------------
(* How a failed step ends the invocation *)

\* the failed step is tried again instead of returning
NewAuthClientRetry(l, e) ==
    /\ clientset' = Nil
    /\ err' = e
    /\ log' = l
    /\ pc' = pc

\* NewAuthClient: return nil, errors.Wrap(err, ...)
NewAuthClientReturn(l, e) ==
    /\ clientset' = Nil
    /\ err' = e
    /\ log' = l
    /\ pc' = "returned"

\* handler of src/main.go: log.WithError(err).Fatal(err.Error()) exits the process
handlerFatal(l, e) ==
    /\ clientset' = Nil
    /\ err' = e
    /\ log' = Log(l, debug, "fatal", e, NoToken)
    /\ pc' = "fatal"

Fail(l, e) ==
    IF variant = "cmd" THEN handlerFatal(l, e) ELSE NewAuthClientReturn(l, e)

----------------------------------------------------------------------------
(* main *)

\* src/main.go: debug logging unless ENV is PRODUCTION
mainCmd ==
    /\ pc = "main"
    /\ variant = "cmd"
    /\ debug' = (env # "PRODUCTION")
    /\ pc' = "loadConfig"
    /\ UNCHANGED <<variant, env, cfg, result, loadErr, client, configs, authInfos,
                   clientConfig, tok, clientset, err, log, calls, recalls, identity>>

\* listpods lambda: debug logging only when ENV is DEBUG
main ==
    /\ pc = "main"
    /\ variant = "pkg"
    /\ debug' = (env = "DEBUG")
    /\ pc' = "loadConfig"
    /\ UNCHANGED <<variant, env, cfg, result, loadErr, client, configs, authInfos,
                   clientConfig, tok, clientset, err, log, calls, recalls, identity>>

----------------------------------------------------------------------------
(* loadConfig *)

\* c.MasterEndpoint = *result.Cluster.Endpoint
\* c.CertificateAuthorityData = *result.Cluster.CertificateAuthority.Data
\* a nil pointer on the way panics; the first assignment may already be done
StoreResult(c, r) ==
    IF IsNil(r.Cluster) \/ IsNil(Deref(r.Cluster).Endpoint)
    THEN [cfg |-> c, panic |-> TRUE]
    ELSE LET c1 == [c EXCEPT !.MasterEndpoint = ResultEndpoint(r)]
         IN  IF \/ IsNil(Deref(r.Cluster).CertificateAuthority)
                \/ IsNil(Deref(Deref(r.Cluster).CertificateAuthority).Data)
             THEN [cfg |-> c1, panic |-> TRUE]
             ELSE [cfg |-> [c1 EXCEPT !.CertificateAuthorityData = ResultCAData(r)],
                   panic |-> FALSE]

\* src/main.go: no name check, the wrapped error is dropped, no return value
loadConfigCmd ==
    /\ pc = "loadConfig"
    /\ variant = "cmd"
    /\ \E r \in DescribeClusterResults :
         LET l1 == Log(log, debug, "info", "Looking up EKS cluster", NoToken)
             l2 == Log(l1, debug, "info", "Found cluster", NoToken)
             l3 == Log(l2, debug, "debug", "Cluster details", NoToken)
             st == StoreResult(cfg, r)
         IN  /\ result' = Ptr(r)
             /\ calls' = [calls EXCEPT !.describe = @ + 1]
             /\ log' = l3
             /\ cfg' = st.cfg
             /\ IF st.panic
                THEN pc' = "panic" /\ loadErr' = loadErr
                ELSE pc' = "NewClientConfig" /\ loadErr' = "void"
    /\ UNCHANGED <<variant, env, debug, client, configs, authInfos, clientConfig,
                   tok, clientset, err, recalls, identity>>

\* package auth: the empty-name error is built and dropped, provider errors are returned
loadConfig ==
    /\ pc = "loadConfig"
    /\ variant = "pkg"
    /\ \E r \in DescribeClusterResults :
         LET l1 == Log(log, debug, "info", "Looking up EKS cluster", NoToken)
             le == Log(l1, debug, "error", r.err, NoToken)
             l2 == Log(l1, debug, "info", "Found cluster", NoToken)
             l3 == Log(l2, debug, "debug", "Cluster details", NoToken)
             st == StoreResult(cfg, r)
         IN  /\ result' = Ptr(r)
             /\ calls' = [calls EXCEPT !.describe = @ + 1]
             /\ IF r.err # "nil"
                THEN /\ loadErr' = r.err
                     /\ cfg' = cfg
                     /\ NewAuthClientReturn(le, r.err)
                ELSE /\ cfg' = st.cfg
                     /\ log' = l3
                     /\ UNCHANGED <<clientset, err>>
                     /\ IF st.panic
                        THEN pc' = "panic" /\ loadErr' = loadErr
                        ELSE pc' = "NewClientConfig" /\ loadErr' = "nil"
    /\ UNCHANGED <<variant, env, debug, client, configs, authInfos, clientConfig,
                   tok, recalls, identity>>

----------------------------------------------------------------------------
(* NewClientConfig, with checkAuth *)

\* sts.GetCallerIdentity: nil on error, else the ARN of the caller
IdentityResults == {Nil} \cup {Ptr(a) : a \in Arns}

\* the auth entry is filed under the cluster name instead of the context name
SkeletonAuthByCluster(c, contextName, data, a) ==
    [ Clusters |-> (c.ClusterName :>
                      [Server |-> c.MasterEndpoint, CertificateAuthorityData |-> data]),
      Contexts |-> (contextName :>
                      [Cluster |-> c.ClusterName, AuthInfo |-> contextName]),
      AuthInfos |-> (c.ClusterName :> a),
      CurrentContext |-> contextName ]

\* the clientcmdapi.Config literal; a is the address of the new AuthInfo
Skeleton(c, contextName, data, a) ==
    [ Clusters |-> (c.ClusterName :>
                      [Server |-> c.MasterEndpoint, CertificateAuthorityData |-> data]),
      Contexts |-> (contextName :>
                      [Cluster |-> c.ClusterName, AuthInfo |-> contextName]),
      AuthInfos |-> (contextName :> a),
      CurrentContext |-> contextName ]

NewClientConfig ==
    /\ pc = "NewClientConfig"
    /\ \E id \in IdentityResults :
         /\ calls' = [calls EXCEPT !.identity = @ + 1]
         /\ identity' = Ptr(id)
         /\ IF IsNil(id)
            THEN /\ Fail(log, "checking AWS STS access")
                 /\ UNCHANGED <<client, configs, authInfos>>
            ELSE LET iamRoleARN == Deref(id)
                     l1 == Log(log, debug, "debug", "role ARN for the current session", NoToken)
                     contextName == Sprintf(getUsername(iamRoleARN), cfg.ClusterName)
                     dec == DecodeString(cfg.CertificateAuthorityData)
                     l2 == Log(l1, debug, "info", "Creating Kubernetes client config", NoToken)
                     a == Len(authInfos) + 1
                 IN  IF ~dec.ok
                     THEN /\ Fail(l1, "decoding certificate authority data")
                          /\ UNCHANGED <<client, configs, authInfos>>
                     ELSE /\ authInfos' = Append(authInfos, [Token |-> NoToken])
                          /\ configs' = Append(configs,
                                               Skeleton(cfg, contextName, dec.data, a))
                          /\ client' = Ptr([Client |-> Len(configs) + 1,
                                            ClusterName |-> cfg.ClusterName,
                                            ContextName |-> contextName,
                                            roleARN |-> iamRoleARN])
                          /\ log' = l2
                          /\ pc' = "WithEmbeddedToken"
                          /\ UNCHANGED <<clientset, err>>
    /\ UNCHANGED <<variant, env, debug, cfg, result, loadErr, clientConfig, tok, recalls>>

----------------------------------------------------------------------------
(* WithEmbeddedToken *)

\* token.NewGenerator / gen.GetWithSTS: an error, or a minted token
MintResults == {"could not get token generator", "could not get token"} \cup TokenValues

\* x := c.Client.AuthInfos[c.ContextName]: the address the map holds, nil if none
AuthInfoOf(c) ==
    IF c.ContextName \in DOMAIN configs[c.Client].AuthInfos
    THEN Ptr(configs[c.Client].AuthInfos[c.ContextName])
    ELSE Nil

\* the token is assigned to a copy of the AuthInfo, the shared one stays empty
EmbedTokenInCopy(c, t) == authInfos

\* x.Token = tok: written through the pointer, so into the Config that c
\* and clientConfigCopy both refer to
EmbedToken(c, t) ==
    [authInfos EXCEPT ![Deref(AuthInfoOf(c))].Token = t]

WithEmbeddedToken ==
    /\ pc = "WithEmbeddedToken"
    /\ LET c == Deref(client)
           clientConfigCopy == c
           l1 == Log(log, debug, "info", "Generating token", NoToken)
       IN  \E m \in MintResults :
             IF m = "could not get token generator"
             THEN /\ Fail(l1, m)
                  /\ UNCHANGED <<authInfos, tok, clientConfig, calls>>
             ELSE /\ calls' = [calls EXCEPT !.presign = @ + 1]
                  /\ IF m = "could not get token"
                     THEN /\ Fail(l1, m)
                          /\ UNCHANGED <<authInfos, tok, clientConfig>>
                     ELSE IF IsNil(AuthInfoOf(c))
                     THEN /\ pc' = "panic"
                          /\ log' = l1
                          /\ UNCHANGED <<authInfos, tok, clientConfig, clientset, err>>
                     ELSE /\ authInfos' = EmbedToken(c, m)
                          /\ tok' = m
                          /\ log' = Log(l1, debug, "debug", "Successfully generated token", m)
                          /\ clientConfig' = Ptr(clientConfigCopy)
                          /\ pc' = "NewClientSet"
                          /\ UNCHANGED <<clientset, err>>
    /\ UNCHANGED <<variant, env, debug, cfg, result, loadErr, client, configs, recalls, identity>>

----------------------------------------------------------------------------
(* NewClientSet *)

\* clientcmd ... ClientConfig() and clientset.NewForConfig: accept or reject
LibraryResults ==
    {"nil", "failed to create API client configuration from client config",
     "failed to create API client"}

\* what the client library binds the client to: the current context of
\* *c.Client, its cluster entry and its auth entry
Handle(c) ==
    LET conf == configs[c.Client]
        ctx == conf.Contexts[conf.CurrentContext]
        cluster == conf.Clusters[ctx.Cluster]
        auth == authInfos[conf.AuthInfos[ctx.AuthInfo]]
    IN  [ Context |-> conf.CurrentContext,
          Host |-> cluster.Server,
          CAData |-> cluster.CertificateAuthorityData,
          BearerToken |-> auth.Token ]

NewClientSet ==
    /\ pc = "NewClientSet"
    /\ \E e \in LibraryResults :
         IF e # "nil"
         THEN Fail(log, e)
         ELSE /\ clientset' = Ptr(Handle(Deref(clientConfig)))
              /\ err' = "nil"
              /\ log' = log
              /\ pc' = IF variant = "cmd" THEN "serving" ELSE "returned"
    /\ UNCHANGED <<variant, env, debug, cfg, result, loadErr, client, configs,
                   authInfos, clientConfig, tok, calls, recalls, identity>>

\* c.WithEmbeddedToken() and then clientConfig.NewClientSet()
NewClientSetWithEmbeddedToken ==
    \/ WithEmbeddedToken
    \/ NewClientSet

----------------------------------------------------------------------------
(* handler of the listpods lambda, after NewAuthClient returned *)

handler ==
    /\ pc = "returned"
    /\ IF err # "nil"
       THEN /\ log' = Log(log, debug, "fatal", err, NoToken)
            /\ pc' = "fatal"
       ELSE /\ log' = log
            /\ pc' = "serving"
    /\ UNCHANGED <<variant, env, debug, cfg, result, loadErr, client, configs,
                   authInfos, clientConfig, tok, clientset, err, calls, recalls, identity>>

----------------------------------------------------------------------------
(* The exported method WithEmbeddedToken, called again on the ClientConfig *)
(* that NewClientConfig returned, by code that kept it.                    *)

Recall ==
    /\ pc = "serving"
    /\ recalls < MaxMints
    /\ recalls' = recalls + 1
    /\ LET c == Deref(client)
           l1 == Log(log, debug, "info", "Generating token", NoToken)
       IN  \E m \in MintResults :
             IF m \notin TokenValues
             THEN /\ log' = l1
                  /\ UNCHANGED <<authInfos, tok>>
             ELSE /\ authInfos' = EmbedToken(c, m)
                  /\ tok' = m
                  /\ log' = Log(l1, debug, "debug", "Successfully generated token", m)
    /\ UNCHANGED <<variant, env, debug, pc, cfg, result, loadErr, client, configs,
                   clientConfig, clientset, err, calls, identity>>

----------------------------------------------------------------------------

Next ==
    \/ mainCmd
    \/ main
    \/ loadConfigCmd
    \/ loadConfig
    \/ NewClientConfig
    \/ NewClientSetWithEmbeddedToken
    \/ handler
    \/ Recall

Spec == Init /\ [][Next]_vars

----------------------------------------------------------------------------
(* Properties *)

Range(s) == {s[i] : i \in 1..Len(s)}

IsError(e) == e \notin {"pending", "void", "nil"}

\* loadConfig has been entered and left, by return or by panic
LoadConfigDone == pc \notin {"main", "loadConfig"}

\* C1: for an empty cluster name loadConfig fails with an invalid-name error
\* and DescribeCluster is invoked zero times.
C1_EmptyNameFailsWithoutCall ==
    (cfg.ClusterName = <<>> /\ LoadConfigDone)
        => (IsError(loadErr) /\ calls.describe = 0)

\* C2: whenever DescribeCluster reports an error, loadConfig hands a non-nil
\* error to its caller, endpoint and trust anchor stay unset, and no later
\* step (identity check, skeleton, token, client) runs.
C2_DescribeErrorPropagated ==
    (~IsNil(result) /\ Deref(result).err # "nil")
        => /\ loadErr = Deref(result).err
           /\ cfg.MasterEndpoint = <<>>
           /\ cfg.CertificateAuthorityData = <<>>
           /\ calls.identity = 0
           /\ calls.presign = 0
           /\ IsNil(client)
           /\ IsNil(clientset)

\* C3: every invocation of NewAuthClient ends with either a handle and a nil
\* error, or no handle and a non-nil error.
C3_HandleOrError ==
    (variant = "pkg" /\ pc \in {"returned", "fatal", "serving", "panic"})
        => \/ ~IsNil(clientset) /\ err = "nil"
           \/ IsNil(clientset) /\ err # "nil"

\* C4: once WithEmbeddedToken and NewClientSet have succeeded, the Config the
\* client was built from holds the minted token in the auth entry keyed by
\* ContextName, the client carries that token, and it was built with
\* ContextName as the current context.  (Stated for the state before any
\* later call of WithEmbeddedToken mints another token.)
C4_HandleCarriesMintedToken ==
    ~IsNil(clientset)
        => LET c == Deref(clientConfig)
               conf == configs[c.Client]
               h == Deref(clientset)
           IN  /\ conf.CurrentContext = c.ContextName
               /\ h.Context = c.ContextName
               /\ h.BearerToken \in TokenValues
               /\ c.ContextName \in DOMAIN conf.AuthInfos
               /\ recalls = 0
                    => /\ authInfos[conf.AuthInfos[c.ContextName]].Token = tok
                       /\ h.BearerToken = tok

C4_Witness ==
    /\ pc = "serving"
    /\ recalls = 0
    /\ ~IsNil(clientset)
    /\ Deref(clientset).BearerToken = "k8s-aws-v1.ABCD"
    /\ Deref(clientset).Context = <<"a", "@", "k">>

\* C5: the skeleton NewClientConfig builds has exactly one cluster entry keyed
\* by the cluster name, exactly one context entry and one auth entry keyed by
\* contextName = displayName "@" clusterName; the context entry names that
\* cluster entry and that auth entry; the auth entry's token is empty until
\* the token is embedded; contextName is the same in the skeleton, in the
\* copy WithEmbeddedToken returns and in the client handle.
C5_SkeletonShape ==
    ~IsNil(client)
        => LET c == Deref(client)
               conf == configs[c.Client]
               contextName == getUsername(c.roleARN) \o <<"@">> \o cfg.ClusterName
           IN  /\ c.ContextName = contextName
               /\ c.ClusterName = cfg.ClusterName
               /\ DOMAIN conf.Clusters = {cfg.ClusterName}
               /\ DOMAIN conf.Contexts = {contextName}
               /\ DOMAIN conf.AuthInfos = {contextName}
               /\ conf.Contexts[contextName].Cluster = cfg.ClusterName
               /\ conf.Contexts[contextName].AuthInfo = contextName
               /\ conf.CurrentContext = contextName
               /\ conf.AuthInfos[contextName] \in DOMAIN authInfos
               /\ pc = "WithEmbeddedToken"
                    => authInfos[conf.AuthInfos[contextName]].Token = NoToken
               /\ ~IsNil(clientConfig) => Deref(clientConfig).ContextName = contextName
               /\ ~IsNil(clientset) => Deref(clientset).Context = contextName

C5_Witness ==
    /\ pc = "WithEmbeddedToken"
    /\ ~IsNil(client)
    /\ cfg.MasterEndpoint = <<"h">>
    /\ cfg.CertificateAuthorityData = <<"Q", "U", "E", "=">>
    /\ Deref(client).ContextName = <<"a", "@", "k">>
    /\ configs[Deref(client).Client].Clusters[<<"k">>].CertificateAuthorityData = <<65, 65>>

\* the user part of a context name "<user>@<cluster>"
UserOf(contextName, cluster) ==
    SubSeq(contextName, 1, Len(contextName) - Len(cluster) - 1)

\* C6: the display name is what follows the last "/" of the ARN when the ARN
\* has a "/", and the literal iam-root-account when it has none.
C6_DisplayName ==
    ~IsNil(client)
        => LET c == Deref(client)
               arn == c.roleARN
               user == UserOf(c.ContextName, c.ClusterName)
           IN  IF "/" \in Range(arn)
               THEN /\ "/" \notin Range(user)
                    /\ \E k \in 1..Len(arn) :
                          arn[k] = "/" /\ user = SubSeq(arn, k + 1, Len(arn))
               ELSE user = RootAccount

C6_Witness ==
    /\ ~IsNil(client)
    /\ Deref(client).roleARN = <<"/", "a", "/">>
    /\ UserOf(Deref(client).ContextName, Deref(client).ClusterName) = <<>>

\* C7: NewClientConfig on a descriptor with an empty endpoint or an empty
\* trust anchor fails and produces no ClientConfig.
C7_IncompleteDescriptorRejected ==
    ( /\ calls.identity > 0
      /\ cfg.MasterEndpoint = <<>> \/ cfg.CertificateAuthorityData = <<>> )
        => (IsNil(client) /\ err # "nil")

\* the trust-anchor field of a successful response is absent or not base64
TrustAnchorMalformed(r) ==
    /\ r.err = "nil"
    /\ ~IsNil(r.Cluster)
    /\ \/ IsNil(Deref(r.Cluster).CertificateAuthority)
       \/ IsNil(Deref(Deref(r.Cluster).CertificateAuthority).Data)
       \/ ~DecodeString(Deref(Deref(Deref(r.Cluster).CertificateAuthority).Data)).ok

\* C8: when DescribeCluster succeeds but the trust-anchor field is absent or
\* not valid base64, loadConfig itself returns an error: it does not panic,
\* does not store the value in the descriptor, and the identity check and
\* skeleton build do not run.
C8_MalformedTrustAnchorRejected ==
    (~IsNil(result) /\ TrustAnchorMalformed(Deref(result)))
        => /\ IsError(loadErr)
           /\ pc # "panic"
           /\ cfg.CertificateAuthorityData = <<>>
           /\ calls.identity = 0
           /\ IsNil(client)

\* C9: with ENV unset, no log record contains the token value.
C9_TokenNotLoggedByDefault ==
    env = "" => \A i \in 1..Len(log) : log[i].token = NoToken

\* C10: the auth entry's token is written only after loadConfig and the
\* identity check succeeded and before the client handle exists, and once
\* written it is never cleared or overwritten, also when WithEmbeddedToken
\* is called again on the same ClientConfig.
C10_TokenWrittenOnce ==
    [][ \A a \in DOMAIN authInfos :
          /\ authInfos[a].Token # NoToken => authInfos'[a].Token = authInfos[a].Token
          /\ (authInfos[a].Token = NoToken /\ authInfos'[a].Token # NoToken)
                => /\ loadErr \in {"void", "nil"}
                   /\ calls.identity > 0
                   /\ ~IsNil(client)
                   /\ IsNil(clientset) ]_vars

\* a remote operation of the invocation has reported an error
DescribeFailed == ~IsNil(result) /\ Deref(result).err # "nil"
IdentityFailed == ~IsNil(identity) /\ IsNil(Deref(identity))
PresignFailed == calls.presign > 0 /\ tok = NoToken

\* the invocation is over: NewAuthClient returned, or the process exited
Ended == pc \in {"returned", "fatal", "panic"}

NoTokenWritten == \A a \in DOMAIN authInfos : authInfos[a].Token = NoToken

\* C11: within one invocation of the construction flow DescribeCluster,
\* GetCallerIdentity and the token presign are each issued at most once, and
\* once one of them has failed the invocation is over: no later remote
\* operation has been issued and no token is in the auth entry.
C11_NoRetryAfterFailure ==
    /\ calls.describe <= 1
    /\ calls.identity <= 1
    /\ calls.presign <= 1
    /\ DescribeFailed
         => Ended /\ calls.identity = 0 /\ calls.presign = 0 /\ NoTokenWritten
    /\ IdentityFailed
         => Ended /\ calls.describe = 1 /\ calls.presign = 0 /\ NoTokenWritten
    /\ PresignFailed
         => Ended /\ calls.describe = 1 /\ calls.identity = 1 /\ NoTokenWritten

C11_Witness ==
    /\ variant = "pkg"
    /\ pc = "fatal"
    /\ PresignFailed
    /\ calls = [describe |-> 1, identity |-> 1, presign |-> 1]
    /\ err = "could not get token"

====
